---- MODULE Spec2Model ----
(***************************************************************************)
(* The redaction engine of Final_Black_Out.py: label-driven value          *)
(* redaction followed by standalone pattern redaction, with the blackout   *)
(* encoding.  A text is a sequence of code points, each written as a       *)
(* one-character string; the two code points outside ASCII are written by  *)
(* their names.  The regular expressions of the source are kept as         *)
(* sequences of items and matched by a backtracking matcher that tries the *)
(* alternatives in the order Python's re module tries them.                *)
(***************************************************************************)
EXTENDS Integers, Sequences, FiniteSets, TLC

VARIABLES text, cur, pc, run, first, cat,
          pii_labels, patterns, calls,
          genai, filepath, raw_text, content, response, cleaned,
          redacted_text, exported

(* text .. cat: one call of the redaction functions on a text.            *)
(* pii_labels, patterns: the module-level catalogs PII_LABELS and PATTERNS *)
(* that every call reads; calls: the calls of redact_text_content in       *)
(* progress side by side.  genai .. exported: a run of main(), the locals  *)
(* of process_file_pipeline and redact_existing_file and what they hand to *)
(* the writers.                                                            *)
text_vars == <<text, cur, run, first, cat>>
call_vars == <<pii_labels, patterns, calls>>
file_vars ==
    <<genai, filepath, raw_text, content, response, cleaned, redacted_text,
      exported>>
vars == <<text_vars, pc, call_vars, file_vars>>

-----------------------------------------------------------------------------
(* Code points and character classes (re, str patterns, flags=IGNORECASE)  *)

Glyph == "U+2588"
EnDash == "U+2013"

UpperToLower ==
    "A" :> "a" @@ "B" :> "b" @@ "C" :> "c" @@ "D" :> "d" @@ "E" :> "e" @@ "F" :> "f" @@ "G" :> "g" @@ "H" :> "h" @@ "I" :> "i" @@
    "J" :> "j" @@ "K" :> "k" @@ "L" :> "l" @@ "M" :> "m" @@ "N" :> "n" @@ "O" :> "o" @@ "P" :> "p" @@ "Q" :> "q" @@ "R" :> "r" @@
    "S" :> "s" @@ "T" :> "t" @@ "U" :> "u" @@ "V" :> "v" @@ "W" :> "w" @@ "X" :> "x" @@ "Y" :> "y" @@ "Z" :> "z"

Lower(c) == IF c \in DOMAIN UpperToLower THEN UpperToLower[c] ELSE c

LowerLetters == {"a", "b", "c", "d", "e", "f", "g", "h", "i", "j", "k", "l", "m", "n", "o", "p", "q", "r", "s", "t", "u", "v", "w", "x", "y", "z"}
Digits == {"0", "1", "2", "3", "4", "5", "6", "7", "8", "9"}
(* \s, and what str.strip() removes; the vertical tab and the whitespace    *)
(* outside ASCII are in no text of the model.                              *)
Space == {" ", "\t", "\n", "\r", "\f"}
LineBreaks == {"\n", "\r"}

IsWord(c) == Lower(c) \in LowerLetters \/ c \in Digits \/ c = "_"

(* One item of a regular expression.                                       *)
Cls(S, neg, min, max, unb, lazy) ==
    [kind |-> "cls", set |-> S, neg |-> neg, min |-> min, max |-> max,
     unb |-> unb, lazy |-> lazy]
One(S) == Cls(S, FALSE, 1, 1, FALSE, FALSE)
Opt(S) == Cls(S, FALSE, 0, 1, FALSE, FALSE)
Rep(S, min, max) == Cls(S, FALSE, min, max, FALSE, FALSE)
Star(S) == Cls(S, FALSE, 0, 0, TRUE, FALSE)
Plus(S) == Cls(S, FALSE, 1, 0, TRUE, FALSE)
WB == [kind |-> "wb"]
Grp == [kind |-> "grp"]
Lit(str) == [kind |-> "lit", str |-> str]
Alt(alts) == [kind |-> "alt", alts |-> alts]

InClass(c, it) == IF it.neg THEN Lower(c) \notin it.set ELSE Lower(c) \in it.set

(* \b at the gap before position pos.                                      *)
AtBoundary(s, pos) ==
    LET before == pos > 1 /\ IsWord(s[pos - 1])
        after == pos <= Len(s) /\ IsWord(s[pos])
    IN  before /= after

LitAt(s, pos, str) ==
    /\ pos + Len(str) - 1 <= Len(s)
    /\ \A j \in 1..Len(str) : Lower(s[pos + j - 1]) = Lower(str[j])

(* The number of characters of the class from pos on, at most lim.         *)
RECURSIVE ClassRun(_, _, _, _)
ClassRun(s, pos, it, lim) ==
    IF lim = 0 \/ pos > Len(s) \/ ~InClass(s[pos], it) THEN 0
    ELSE 1 + ClassRun(s, pos + 1, it, lim - 1)

(* Match(items, s, pos, mark): the first match of the items at pos in the  *)
(* matcher's backtracking order, as <<end, mark>> where end is the         *)
(* position after the match and mark the position where group 2 starts;    *)
(* <<>> when the items do not match at pos.                                *)
RECURSIVE Match(_, _, _, _), TryCounts(_, _, _, _, _, _, _), TryAlts(_, _, _, _, _)
Match(items, s, pos, mark) ==
    IF items = <<>> THEN <<pos, mark>>
    ELSE LET it == Head(items)
             rest == Tail(items)
         IN  CASE it.kind = "wb" ->
                    IF AtBoundary(s, pos) THEN Match(rest, s, pos, mark) ELSE <<>>
               [] it.kind = "grp" -> Match(rest, s, pos, pos)
               [] it.kind = "lit" ->
                    IF LitAt(s, pos, it.str)
                    THEN Match(rest, s, pos + Len(it.str), mark)
                    ELSE <<>>
               [] it.kind = "alt" -> TryAlts(it.alts, rest, s, pos, mark)
               [] it.kind = "cls" ->
                    LET n == ClassRun(s, pos, it, IF it.unb THEN Len(s) ELSE it.max)
                    IN  IF n < it.min THEN <<>>
                        ELSE IF it.lazy
                             THEN TryCounts(rest, s, pos, mark, it.min, n, 1)
                             ELSE TryCounts(rest, s, pos, mark, n, it.min, -1)

(* Repetition counts from k to last in steps of step: greedy counts down,  *)
(* lazy counts up.                                                         *)
TryCounts(rest, s, pos, mark, k, last, step) ==
    LET m == Match(rest, s, pos + k, mark)
    IN  IF m /= <<>> THEN m
        ELSE IF k = last THEN <<>>
        ELSE TryCounts(rest, s, pos, mark, k + step, last, step)

TryAlts(alts, rest, s, pos, mark) ==
    IF alts = <<>> THEN <<>>
    ELSE LET m == Match(Head(alts) \o rest, s, pos, mark)
         IN  IF m /= <<>> THEN m ELSE TryAlts(Tail(alts), rest, s, pos, mark)

-----------------------------------------------------------------------------
(* The catalogs                                                            *)

PII_LABELS == <<
    <<"g","o","v","e","r","n","m","e","n","t"," ","i","s","s","u","e","d"," ","i","d">>,
    <<"G","o","v","e","r","n","m","e","n","t"," ","I","s","s","u","e","d"," ","I","D">>,
    <<"G","O","V","E","R","N","M","E","N","T"," ","I","S","S","U","E","D"," ","I","D">>,
    <<"g","o","v","t"," ","i","s","s","u","e","d"," ","i","d">>,
    <<"g","o","v"," ","i","s","s","u","e","d"," ","i","d">>,
    <<"g","o","v"," ","i","s","s","u","e","d"," ","i","d","e","n","t","i","f","i","c","a","t","i","o","n">>,
    <<"g","o","v"," ","i","d">>,
    <<"g","o","v","t"," ","i","d">>,
    <<"g","o","v","e","r","n","m","e","n","t"," ","i","d">>,
    <<"g","o","v","e","r","n","m","e","n","t"," ","i","d","e","n","t","i","f","i","c","a","t","i","o","n">>,
    <<"i","d"," ","i","s","s","u","e","d"," ","b","y"," ","g","o","v","e","r","n","m","e","n","t">>,
    <<"g","o","v","e","r","n","m","e","n","t"," ","i","d","e","n","t","i","t","y"," ","c","a","r","d">>,
    <<"i","d"," ","c","a","r","d">>,
    <<"i","d","e","n","t","i","t","y"," ","c","a","r","d">>,
    <<"i","d","e","n","t","i","f","i","c","a","t","i","o","n"," ","i","d">>,
    <<"o","f","f","i","c","i","a","l"," ","i","d">>,
    <<"o","f","f","i","c","i","a","l"," ","i","d","e","n","t","i","f","i","c","a","t","i","o","n">>,
    <<"n","a","t","i","o","n","a","l"," ","i","d">>,
    <<"n","a","t","i","o","n","a","l"," ","i","d","e","n","t","i","f","i","c","a","t","i","o","n">>,
    <<"g","o","v"," ","i","d","e","n","t","i","t","y">>,
    <<"s","o","c","i","a","l"," ","s","e","c","u","r","i","t","y"," ","n","u","m","b","e","r">>,
    <<"S","o","c","i","a","l"," ","S","e","c","u","r","i","t","y"," ","N","u","m","b","e","r">>,
    <<"S","O","C","I","A","L"," ","S","E","C","U","R","I","T","Y"," ","N","U","M","B","E","R">>,
    <<"s","s","n">>,
    <<"S","S","N">>,
    <<"S",".","S",".","N",".">>,
    <<"s","o","c","i","a","l"," ","s","e","c","u","r","i","t","y"," ","n","o">>,
    <<"s","s"," ","n","u","m","b","e","r">>,
    <<"s","o","c"," ","s","e","c"," ","n","o">>,
    <<"s","s","n"," ","n","u","m","b","e","r">>,
    <<"s","o","c","i","a","l"," ","s","e","c"," ","n","u","m","b","e","r">>,
    <<"s","o","c","i","a","l"," ","s","e","c","u","r","i","t","y"," ","#">>,
    <<"t","a","x"," ","i","d">>,
    <<"T","a","x"," ","I","D">>,
    <<"T","A","X"," ","I","D">>,
    <<"t","a","x"," ","i","d","e","n","t","i","f","i","c","a","t","i","o","n"," ","n","u","m","b","e","r">>,
    <<"t","i","n">>,
    <<"T","I","N">>,
    <<"T",".","I",".","N",".">>,
    <<"t","a","x"," ","n","o">>,
    <<"t","a","x"," ","n","u","m","b","e","r">>,
    <<"t","a","x","p","a","y","e","r"," ","i","d">>,
    <<"t","a","x"," ","p","a","y","e","r"," ","n","u","m","b","e","r">>,
    <<"f","e","d","e","r","a","l"," ","e","m","p","l","o","y","e","r"," ","i","d">>,
    <<"F","e","d","e","r","a","l"," ","E","m","p","l","o","y","e","r"," ","I","D">>,
    <<"F","E","D","E","R","A","L"," ","E","M","P","L","O","Y","E","R"," ","I","D">>,
    <<"e","m","p","l","o","y","e","r"," ","i","d">>,
    <<"e","m","p","l","o","y","e","r"," ","i","d","e","n","t","i","f","i","c","a","t","i","o","n">>,
    <<"f","e","i","d">>,
    <<"F","E","I","D">>,
    <<"F",".","E",".","I",".","D",".">>,
    <<"f","e","i","n">>,
    <<"F","E","I","N">>,
    <<"F",".","E",".","I",".","N",".">>,
    <<"f","e","d","e","r","a","l"," ","e","m","p","l","o","y","e","r"," ","i","d","e","n","t","i","f","i","c","a","t","i","o","n"," ","n","u","m","b","e","r">>,
    <<"f","e","i","n"," ","n","u","m","b","e","r">>,
    <<"f","e","d","e","r","a","l"," ","e","i","n">>,
    <<"e","m","p","l","o","y","e","r"," ","e","i","n">>,
    <<"d","r","i","v","e","r","'","s"," ","l","i","c","e","n","s","e">>,
    <<"D","r","i","v","e","r","'","s"," ","L","i","c","e","n","s","e">>,
    <<"D","r","i","v","e","r","'"," ","s"," ","L","i","c","e","n","s","e">>,
    <<"L","i","c","e","n","s","e">>,
    <<"D","R","I","V","E","R","'","S"," ","L","I","C","E","N","S","E">>,
    <<"d","r","i","v","e","r","s"," ","l","i","c","e","n","s","e">>,
    <<"d","r","i","v","e","r"," ","l","i","c","e","n","s","e">>,
    <<"d","r","i","v","i","n","g"," ","l","i","c","e","n","s","e">>,
    <<"d","l"," ","n","u","m","b","e","r">>,
    <<"D","L">>,
    <<"D",".","L",".">>,
    <<"l","i","c","e","n","s","e"," ","n","u","m","b","e","r">>,
    <<"d","r","i","v","e","r"," ","i","d">>,
    <<"i","d","e","n","t","i","f","i","c","a","t","i","o","n"," ","c","a","r","d">>,
    <<"I","d","e","n","t","i","f","i","c","a","t","i","o","n"," ","C","a","r","d">>,
    <<"I","D"," ","c","a","r","d">>,
    <<"i","d","e","n","t","i","t","y"," ","c","a","r","d">>,
    <<"i","d">>,
    <<"I","D">>,
    <<"i","d","e","n","t","i","f","i","c","a","t","i","o","n">>,
    <<"i","d"," ","n","u","m","b","e","r">>,
    <<"i","d","e","n","t","i","f","i","c","a","t","i","o","n"," ","n","u","m","b","e","r">>,
    <<"p","a","s","s","p","o","r","t">>,
    <<"P","a","s","s","p","o","r","t">>,
    <<"P","A","S","S","P","O","R","T">>,
    <<"p","a","s","s","p","o","r","t"," ","n","u","m","b","e","r">>,
    <<"p","a","s","s","p","o","r","t"," ","n","o">>,
    <<"p","p"," ","n","u","m","b","e","r">>,
    <<"p","a","s","s","p","o","r","t"," ","i","d">>,
    <<"m","i","l","i","t","a","r","y"," ","i","d">>,
    <<"M","i","l","i","t","a","r","y"," ","I","D">>,
    <<"M","I","L","I","T","A","R","Y"," ","I","D">>,
    <<"a","r","m","y"," ","i","d">>,
    <<"n","a","v","y"," ","i","d">>,
    <<"a","i","r","f","o","r","c","e"," ","i","d">>,
    <<"d","e","f","e","n","s","e"," ","i","d">>,
    <<"m","i","l","i","t","a","r","y"," ","i","d","e","n","t","i","f","i","c","a","t","i","o","n">>,
    <<"d","a","t","e"," ","o","f"," ","b","i","r","t","h">>,
    <<"D","a","t","e"," ","o","f"," ","B","i","r","t","h">>,
    <<"D","A","T","E"," ","O","F"," ","B","I","R","T","H">>,
    <<"d","o","b">>,
    <<"D","O","B">>,
    <<"b","i","r","t","h"," ","d","a","t","e">>,
    <<"b","i","r","t","h"," ","i","n","f","o">>,
    <<"D",".","o",".","B",".">>,
    <<"D","O","B">>,
    <<"d","a","t","e"," ","b","o","r","n">>,
    <<"b","o","r","n"," ","o","n">>,
    <<"b","i","r","t","h","d","a","t","e">>,
    <<"D",".","O",".","B",".">>,
    <<"h","o","m","e"," ","a","d","d","r","e","s","s">>,
    <<"H","o","m","e"," ","A","d","d","r","e","s","s">>,
    <<"H","O","M","E"," ","A","D","D","R","E","S","S">>,
    <<"r","e","s","i","d","e","n","t","i","a","l"," ","a","d","d","r","e","s","s">>,
    <<"r","e","s","i","d","e","n","c","e"," ","a","d","d","r","e","s","s">>,
    <<"a","d","d","r","e","s","s">>,
    <<"a","d","d","r">>,
    <<"A","D","D","R","E","S","S">>,
    <<"s","t","r","e","e","t"," ","a","d","d","r","e","s","s">>,
    <<"s","t","r","e","e","t"," ","a","d","d","r">>,
    <<"r","e","s","i","d","e","n","t","i","a","l"," ","a","d","d","r">>,
    <<"A","d","d","r","e","s","s">>,
    <<"h","o","m","e"," ","t","e","l","e","p","h","o","n","e"," ","n","u","m","b","e","r">>,
    <<"H","o","m","e"," ","T","e","l","e","p","h","o","n","e"," ","n","u","m","b","e","r">>,
    <<"H","O","M","E"," ","T","E","L","E","P","H","O","N","E"," ","N","U","M","B","E","R">>,
    <<"t","e","l","e","p","h","o","n","e"," ","n","u","m","b","e","r">>,
    <<"h","o","m","e"," ","p","h","o","n","e">>,
    <<"l","a","n","d","l","i","n","e">>,
    <<"t","e","l"," ","n","u","m","b","e","r">>,
    <<"c","e","l","l"," ","p","h","o","n","e"," ","n","u","m","b","e","r">>,
    <<"C","e","l","l"," ","p","h","o","n","e"," ","n","u","m","b","e","r">>,
    <<"C","E","L","L"," ","P","H","O","N","E"," ","N","U","M","B","E","R">>,
    <<"m","o","b","i","l","e"," ","n","u","m","b","e","r">>,
    <<"m","o","b","i","l","e"," ","n","o">>,
    <<"c","e","l","l"," ","n","u","m","b","e","r">>,
    <<"p","h","o","n","e"," ","n","u","m","b","e","r">>,
    <<"c","o","n","t","a","c","t"," ","n","u","m","b","e","r">>,
    <<"c","o","n","t","a","c","t"," ","n","o">>,
    <<"p","h"," ","n","u","m","b","e","r">>,
    <<"C","e","l","l"," ","N","o">>,
    <<"e","m","a","i","l"," ","a","d","d","r","e","s","s">>,
    <<"E","m","a","i","l"," ","A","d","d","r","e","s","s">>,
    <<"E","M","A","I","L"," ","A","D","D","R","E","S","S">>,
    <<"e","m","a","i","l">>,
    <<"e","-","m","a","i","l">>,
    <<"e","m","a","i","l"," ","i","d">>,
    <<"m","a","i","l"," ","i","d">>,
    <<"E","m","a","i","l">>,
    <<"e","m","a","i","l"," ","I","D">>,
    <<"e","M","a","i","l">>,
    <<"g","m","a","i","l">>,
    <<"g","-","m","a","i","l">>,
    <<"s","o","c","i","a","l"," ","m","e","d","i","a"," ","c","o","n","t","a","c","t"," ","i","n","f","o","r","m","a","t","i","o","n">>,
    <<"S","o","c","i","a","l"," ","M","e","d","i","a"," ","C","o","n","t","a","c","t"," ","I","n","f","o","r","m","a","t","i","o","n">>,
    <<"S","O","C","I","A","L"," ","M","E","D","I","A"," ","C","O","N","T","A","C","T"," ","I","N","F","O","R","M","A","T","I","O","N">>,
    <<"s","o","c","i","a","l"," ","m","e","d","i","a"," ","i","n","f","o">>,
    <<"s","o","c","i","a","l"," ","h","a","n","d","l","e">>,
    <<"s","o","c","i","a","l"," ","c","o","n","t","a","c","t">>,
    <<"s","o","c","i","a","l"," ","m","e","d","i","a"," ","a","c","c","o","u","n","t">>,
    <<"h","e","a","l","t","h"," ","i","n","s","u","r","a","n","c","e"," ","p","o","l","i","c","y"," ","n","u","m","b","e","r">>,
    <<"H","e","a","l","t","h"," ","I","n","s","u","r","a","n","c","e"," ","P","o","l","i","c","y"," ","N","u","m","b","e","r">>,
    <<"i","n","s","u","r","a","n","c","e"," ","p","o","l","i","c","y"," ","n","u","m","b","e","r">>,
    <<"p","o","l","i","c","y"," ","n","u","m","b","e","r">>,
    <<"p","o","l","i","c","y"," ","n","o">>,
    <<"h","e","a","l","t","h"," ","i","n","s","u","r","a","n","c","e"," ","n","u","m","b","e","r">>,
    <<"i","n","s","u","r","a","n","c","e"," ","n","u","m","b","e","r">>,
    <<"m","e","d","i","c","a","l"," ","r","e","c","o","r","d"," ","n","u","m","b","e","r">>,
    <<"M","e","d","i","c","a","l"," ","R","e","c","o","r","d"," ","N","u","m","b","e","r">>,
    <<"M","R","N">>,
    <<"m","r","n">>,
    <<"m","e","d","i","c","a","l"," ","r","e","c","o","r","d"," ","n","o">>,
    <<"m","e","d"," ","r","e","c","o","r","d"," ","n","u","m","b","e","r">>,
    <<"m","e","d","i","c","a","l">>,
    <<"r","e","c","o","r","d">>,
    <<"n","u","m","b","e","r">>,
    <<"c","l","a","i","m"," ","n","u","m","b","e","r">>,
    <<"C","l","a","i","m"," ","N","u","m","b","e","r">>,
    <<"C","L","A","I","M"," ","N","U","M","B","E","R">>,
    <<"c","l","a","i","m"," ","n","o">>,
    <<"c","l","a","i","m"," ","i","d">>,
    <<"p","a","t","i","e","n","t"," ","a","c","c","o","u","n","t"," ","n","u","m","b","e","r">>,
    <<"P","a","t","i","e","n","t"," ","A","c","c","o","u","n","t"," ","N","u","m","b","e","r">>,
    <<"P","A","T","I","E","N","T"," ","A","C","C","O","U","N","T"," ","N","U","M","B","E","R">>,
    <<"p","a","t","i","e","n","t"," ","i","d">>,
    <<"p","a","t","i","e","n","t"," ","a","c","c","o","u","n","t">>,
    <<"f","i","l","e"," ","n","u","m","b","e","r">>,
    <<"F","i","l","e"," ","N","u","m","b","e","r">>,
    <<"F","I","L","E"," ","N","U","M","B","E","R">>,
    <<"f","i","l","e"," ","n","o">>,
    <<"f","i","l","e"," ","i","d">>,
    <<"f","i","l","e"," ","r","e","f","e","r","e","n","c","e">>,
    <<"c","h","a","r","t"," ","n","u","m","b","e","r">>,
    <<"C","h","a","r","t"," ","N","u","m","b","e","r">>,
    <<"C","H","A","R","T"," ","N","U","M","B","E","R">>,
    <<"c","h","a","r","t"," ","n","o">>,
    <<"c","h","a","r","t"," ","i","d">>,
    <<"i","n","d","i","v","i","d","u","a","l"," ","f","i","n","a","n","c","i","a","l"," ","a","c","c","o","u","n","t"," ","n","u","m","b","e","r">>,
    <<"I","n","d","i","v","i","d","u","a","l"," ","F","i","n","a","n","c","i","a","l"," ","A","c","c","o","u","n","t"," ","N","u","m","b","e","r">>,
    <<"f","i","n","a","n","c","i","a","l"," ","a","c","c","o","u","n","t"," ","n","u","m","b","e","r">>,
    <<"f","i","n","a","n","c","i","a","l"," ","a","c","c","o","u","n","t">>,
    <<"a","c","c","o","u","n","t"," ","n","u","m","b","e","r">>,
    <<"b","a","n","k"," ","a","c","c","o","u","n","t"," ","n","u","m","b","e","r">>,
    <<"B","a","n","k"," ","A","c","c","o","u","n","t"," ","N","u","m","b","e","r">>,
    <<"B","A","N","K"," ","A","C","C","O","U","N","T"," ","N","U","M","B","E","R">>,
    <<"b","a","n","k"," ","n","o">>,
    <<"a","c","c","o","u","n","t"," ","n","o">>,
    <<"a","c","c","t"," ","n","u","m","b","e","r">>,
    <<"f","i","n","a","n","c","i","a","l"," ","i","n","f","o","r","m","a","t","i","o","n">>,
    <<"F","i","n","a","n","c","i","a","l"," ","I","n","f","o","r","m","a","t","i","o","n">>,
    <<"F","I","N","A","N","C","I","A","L"," ","I","N","F","O","R","M","A","T","I","O","N">>,
    <<"f","i","n","a","n","c","i","a","l"," ","d","a","t","a">>,
    <<"f","i","n","a","n","c","i","a","l"," ","d","e","t","a","i","l","s">>,
    <<"c","r","e","d","i","t"," ","c","a","r","d"," ","n","u","m","b","e","r">>,
    <<"C","r","e","d","i","t"," ","C","a","r","d"," ","N","u","m","b","e","r">>,
    <<"C","R","E","D","I","T"," ","C","A","R","D"," ","N","U","M","B","E","R">>,
    <<"c","r","e","d","i","t"," ","c","a","r","d">>,
    <<"c","a","r","d"," ","n","u","m","b","e","r">>,
    <<"c","c"," ","n","u","m","b","e","r">>,
    <<"c","a","r","d"," ","n","o">>
>>


(* The compiled form of the PATTERNS entries.                              *)
PhoneSep == {"-", ".", " ", "\t", "\n", "\r", "\f"}
CardSep == {"-", " ", "\t", "\n", "\r", "\f"}
DateSep == {"/", "-", "."}
EmailLocal == LowerLetters \cup Digits \cup {".", "_", "%", "+", "-"}
EmailDomain == LowerLetters \cup Digits \cup {".", "-"}

SSNItems ==
    <<WB, Rep(Digits, 3, 3), One({"-"}), Rep(Digits, 2, 2), One({"-"}),
      Rep(Digits, 4, 4), WB>>
PhoneItems ==
    <<WB, Opt({"+"}), Cls(Digits, FALSE, 1, 3, FALSE, TRUE), Opt(PhoneSep),
      Opt({"("}), Rep(Digits, 2, 4), Opt({")"}), Opt(PhoneSep),
      Rep(Digits, 3, 4), Opt(PhoneSep), Rep(Digits, 3, 4), WB>>
EmailItems ==
    <<WB, Plus(EmailLocal), One({"@"}), Plus(EmailDomain), One({"."}),
      Cls(LowerLetters, FALSE, 2, 0, TRUE, FALSE), WB>>
CardItems ==
    <<WB, Rep(Digits, 4, 4), Opt(CardSep), Rep(Digits, 4, 4), Opt(CardSep),
      Rep(Digits, 4, 4), Opt(CardSep), Rep(Digits, 4, 4), WB>>
DateItems ==
    <<WB,
      Alt(<< <<Opt({"0"}), One(Digits \ {"0"})>>,
             <<One({"1"}), One({"0", "1", "2"})>> >>),
      One(DateSep),
      Alt(<< <<Opt({"0"}), One(Digits \ {"0"})>>,
             <<One({"1", "2"}), One(Digits)>>,
             <<One({"3"}), One({"0", "1"})>> >>),
      One(DateSep), Rep(Digits, 4, 4), WB>>

PATTERNS == <<"SSN", "Phone", "Email", "Credit Card", "Date (MM/DD/YYYY)">>

(* re.compile of a catalog entry: the items, or no items for an            *)
(* expression that raises re.error.                                        *)
Compiles(name) == name \in {PATTERNS[i] : i \in 1..Len(PATTERNS)}
Compiled(name) ==
    CASE name = "SSN" -> SSNItems
      [] name = "Phone" -> PhoneItems
      [] name = "Email" -> EmailItems
      [] name = "Credit Card" -> CardItems
      [] name = "Date (MM/DD/YYYY)" -> DateItems

-----------------------------------------------------------------------------
(* REDACTION helpers                                                       *)

(* A variant of blackout_text: one glyph per UTF-8 byte of the input.       *)
Utf8Len(c) == IF c \in {Glyph, EnDash} THEN 3 ELSE 1
RECURSIVE blackout_text_per_byte(_)
blackout_text_per_byte(s) ==
    IF s = <<>> THEN <<>>
    ELSE [i \in 1..Utf8Len(Head(s)) |-> Glyph] \o blackout_text_per_byte(Tail(s))

blackout_text(s) == IF s = <<>> THEN s ELSE [i \in 1..Len(s) |-> Glyph]

RECURSIVE lstrip(_), rstrip(_)
lstrip(s) == IF s /= <<>> /\ Head(s) \in Space THEN lstrip(Tail(s)) ELSE s
rstrip(s) ==
    IF s /= <<>> /\ s[Len(s)] \in Space THEN rstrip(SubSeq(s, 1, Len(s) - 1)) ELSE s
strip(s) == rstrip(lstrip(s))

(* The leftmost match at or after pos, as <<start, end, mark>>, or <<>>.    *)
RECURSIVE Search(_, _, _)
Search(items, s, pos) ==
    IF pos > Len(s) THEN <<>>
    ELSE LET m == Match(items, s, pos, pos)
         IN  IF m = <<>> THEN Search(items, s, pos + 1) ELSE <<pos, m[1], m[2]>>

(* A variant of the label replacement: the whole match is blackened,       *)
(* m.group(0) in place of m.group(2).                                      *)
LabelRepl_whole_match(s, f) == blackout_text(strip(SubSeq(s, f[1], f[2] - 1)))

LabelRepl(s, f) ==
    SubSeq(s, f[1], f[3] - 1) \o blackout_text(strip(SubSeq(s, f[3], f[2] - 1)))
(* A variant of the pattern replacement: a mask of one width for every     *)
(* match, "\u2588" * 8 in place of blackout_text(m.group(0)).              *)
PatternRepl_fixed_mask(s, f) == [i \in 1..8 |-> Glyph]
PatternRepl(s, f) == blackout_text(SubSeq(s, f[1], f[2] - 1))

(* re.sub(p, repl, s) from pos on: the leftmost non-overlapping matches    *)
(* are replaced, the text between them is copied.  label selects the       *)
(* replacement function of redact_label_values or of redact_patterns.      *)
RECURSIVE SubFrom(_, _, _, _)
SubFrom(items, s, pos, label) ==
    LET f == Search(items, s, pos)
    IN  IF f = <<>> THEN SubSeq(s, pos, Len(s))
        ELSE SubSeq(s, pos, f[1] - 1)
             \o (IF label THEN LabelRepl(s, f) ELSE PatternRepl(s, f))
             \o SubFrom(items, s, f[2], label)

Sub(items, s, label) == SubFrom(items, s, 1, label)

LabelSeps == {":", "-", EnDash}
LabelForms(label) ==
    << <<Lit(label), Star(Space), One(LabelSeps), Star(Space), Grp,
         Cls(LineBreaks, TRUE, 1, 0, TRUE, FALSE)>>,
       <<Lit(label), Plus(Space), Grp, Cls(LineBreaks, TRUE, 1, 0, TRUE, FALSE)>> >>

(* Whether the label text occurs in s, in any case.                        *)
Occurs(label, s) == \E p \in 1..Len(s) : LitAt(s, p, label)

(* The two re.sub calls of one label: the form with a separator, then the  *)
(* form with whitespace only.  Both expressions start with the label text, *)
(* so neither matches where it does not occur, and re.sub returns its      *)
(* input when nothing matches; that case is decided first.                 *)
LabelPass(redacted, label) ==
    LET forms == LabelForms(label)
    IN  IF ~Occurs(label, redacted) THEN redacted
        ELSE Sub(forms[2], Sub(forms[1], redacted, TRUE), TRUE)

(* The loop over labels[lo..hi] in order.  The range is split in halves and *)
(* the first half is evaluated (Len) before the second starts, which keeps *)
(* the evaluation shallow; the passes run in catalog order.                *)
RECURSIVE redact_label_values_range(_, _, _, _)
redact_label_values_range(redacted, labels, lo, hi) ==
    IF lo > hi THEN redacted
    ELSE IF lo = hi THEN LabelPass(redacted, labels[lo])
    ELSE LET mid == (lo + hi) \div 2
             half == redact_label_values_range(redacted, labels, lo, mid)
         IN  IF Len(half) >= 0
             THEN redact_label_values_range(half, labels, mid + 1, hi)
             ELSE half

redact_label_values(t, labels) == redact_label_values_range(t, labels, 1, Len(labels))

(* A variant of the loop of redact_patterns: the try encloses the loop, so *)
(* the first expression that does not compile ends it.                     *)
RECURSIVE redact_patterns_from_try_outside(_, _, _)
redact_patterns_from_try_outside(redacted, patterns_dict, i) ==
    IF i > Len(patterns_dict) THEN redacted
    ELSE LET name == patterns_dict[i]
         IN  IF Compiles(name)
             THEN redact_patterns_from_try_outside(
                      Sub(Compiled(name), redacted, FALSE), patterns_dict, i + 1)
             ELSE redacted

RECURSIVE redact_patterns_from(_, _, _)
redact_patterns_from(redacted, patterns_dict, i) ==
    IF i > Len(patterns_dict) THEN redacted
    ELSE LET name == patterns_dict[i]
             r == IF Compiles(name) THEN Sub(Compiled(name), redacted, FALSE)
                  ELSE redacted
         IN  redact_patterns_from(r, patterns_dict, i + 1)

(* A variant of redact_patterns: every rule is applied to the input text,  *)
(* re.sub(patt, ..., text), so the result is that of the last rule alone.  *)
redact_patterns_on_input(t, patterns_dict) ==
    IF patterns_dict = <<>> THEN t
    ELSE LET name == patterns_dict[Len(patterns_dict)]
         IN  IF Compiles(name) THEN Sub(Compiled(name), t, FALSE) ELSE t

(* A variant of redact_patterns: the result is stripped before it is       *)
(* returned.                                                               *)
redact_patterns_stripped(t, patterns_dict) ==
    strip(redact_patterns_from(t, patterns_dict, 1))

redact_patterns(t, patterns_dict) == redact_patterns_from(t, patterns_dict, 1)

redact_text_content(t) == redact_patterns(redact_label_values(t, PII_LABELS), PATTERNS)

-----------------------------------------------------------------------------
(* Input documents                                                         *)

MaxSpaces == 3

Spaces(k) == [i \in 1..k |-> " "]

(* The words a line starts with: catalog labels, a word that is no label,  *)
(* or nothing.                                                             *)
LabelWords ==
    { <<>>,
      <<"S", "S", "N">>,
      <<"E", "m", "a", "i", "l">>,
      <<"E", "m", "a", "i", "l", " ", "A", "d", "d", "r", "e", "s", "s">>,
      <<"L", "i", "c", "e", "n", "s", "e", " ", "N", "u", "m", "b", "e", "r">>,
      <<"N", "a", "m", "e">> }

(* What stands between the label and the value: nothing, a space, or a     *)
(* colon and up to MaxSpaces spaces.                                       *)
Separators == {<<>>, <<" ">>} \cup {<<":">> \o Spaces(k) : k \in 0..MaxSpaces}

Values ==
    { <<>>,
      <<"x">>,
      <<"x", " ", " ">>,
      <<"1", "2", "3", "-", "4", "5", "-", "6", "7", "8", "9">>,
      <<"a", "@", "b", ".", "c", "o">>,
      <<"1", "2", "3", "4", " ", "5", "6", "7", "8", " ", "9", "0", "1", "2", " ", "3", "4", "5", "6">>,
      <<"1", "2", "/", "2", "5", "/", "2", "0", "2", "0">>,
      <<"5", "5", "5">> }

(* The lines after the first one.                                          *)
Followers ==
    { <<"\n", "N", "a", "m", "e", ":", " ", "v">>,
      <<"\n", "\n", "x">>,
      <<"\n", "1", "2", "3", "4", " ", "5", "6", "7", "8">> }

(* A document is a first line (words, separator, value) and the lines      *)
(* after it, if any.                                                       *)
Texts ==
    {l \o p \o v \o f : l \in LabelWords, p \in Separators, v \in Values,
                        f \in {<<>>} \cup Followers}

(* The texts handed to redact_patterns alone: two values and what stands   *)
(* between them.                                                           *)
PatternValues ==
    { <<>>,
      <<"x">>,
      <<"1", "2", "3", "-", "4", "5", "-", "6", "7", "8", "9">>,
      <<"5", "5", "5", " ", "1", "2", "3", " ", "4", "5", "6", "7">>,
      <<"a", "@", "b", ".", "c", "o">>,
      <<"1", "2", "3", "4", " ", "5", "6", "7", "8", " ", "9", "0", "1", "2", " ", "3", "4", "5", "6">>,
      <<"1", "2", "3", "4", "-", "5", "6", "7", "8", "-", "9", "0", "1", "2", "-", "3", "4", "5", "6">>,
      <<"1", "2", "/", "2", "5", "/", "2", "0", "2", "0">>,
      <<"1", "2", "3", " ", "4", "5", "6", "7">> }

PatternTexts ==
    {v \o p \o w : v \in PatternValues, w \in PatternValues,
                   p \in {<<" ">>, <<"\n">>}}

(* The catalogs handed to redact_patterns: PATTERNS in every order, and    *)
(* PATTERNS with one entry whose expression does not compile.              *)
Malformed == "Malformed"
Orderings(cats) ==
    {c \in [1..Len(cats) -> {cats[i] : i \in 1..Len(cats)}] :
        \A i, j \in 1..Len(cats) : i /= j => c[i] /= c[j]}
InsertAt(c, k, name) == SubSeq(c, 1, k) \o <<name>> \o SubSeq(c, k + 1, Len(c))
Catalogs ==
    Orderings(PATTERNS) \cup {InsertAt(PATTERNS, k, Malformed) : k \in 0..Len(PATTERNS)}

(* The catalogs as the module holds them.  The list PII_LABELS is the set *)
(* of the positions of the literal's entries it holds, read in order;     *)
(* the dictionary PATTERNS is its names in insertion order.               *)
LabelPositions == 1..Len(PII_LABELS)
CatalogLabels(ls) ==
    LET idx == SelectSeq([i \in 1..Len(PII_LABELS) |-> i], LAMBDA i : i \in ls)
    IN  [k \in 1..Len(idx) |-> PII_LABELS[idx[k]]]

(* No call in progress beside the one a specification follows, and no run *)
(* of main().                                                              *)
NoCalls ==
    /\ pii_labels = LabelPositions
    /\ patterns = PATTERNS
    /\ calls = <<>>
NoFileRun ==
    /\ genai = FALSE
    /\ filepath = ""
    /\ raw_text = <<>>
    /\ content = <<>>
    /\ response = <<>>
    /\ cleaned = <<>>
    /\ redacted_text = <<>>
    /\ exported = <<>>
NoSingleCall ==
    /\ text = <<>>
    /\ cur = <<>>
    /\ run = 1
    /\ first = <<>>
    /\ cat = PATTERNS

-----------------------------------------------------------------------------
(* redact_text_content, called on a document and then on its own output    *)

Init ==
    /\ text \in Texts
    /\ cur = text
    /\ pc = "start"
    /\ run = 1
    /\ first = <<>>
    /\ cat = PATTERNS
    /\ NoCalls
    /\ NoFileRun

RedactLabelValues ==
    /\ pc = "start"
    /\ cur' = redact_label_values(cur, PII_LABELS)
    /\ pc' = "labelled"
    /\ UNCHANGED <<text, run, first, cat>>
    /\ UNCHANGED <<call_vars, file_vars>>

RedactPatterns ==
    /\ pc = "labelled"
    /\ cur' = redact_patterns(cur, PATTERNS)
    /\ pc' = "done"
    /\ UNCHANGED <<text, run, first, cat>>
    /\ UNCHANGED <<call_vars, file_vars>>

RedactAgain ==
    /\ pc = "done"
    /\ run = 1
    /\ first' = cur
    /\ run' = 2
    /\ pc' = "start"
    /\ UNCHANGED <<text, cur, cat>>
    /\ UNCHANGED <<call_vars, file_vars>>

Next == RedactLabelValues \/ RedactPatterns \/ RedactAgain

Spec == Init /\ [][Next]_vars

-----------------------------------------------------------------------------
(* redact_patterns, called on a text with PATTERNS and then with another   *)
(* catalog                                                                 *)

InitPatterns ==
    /\ text \in PatternTexts
    /\ cur = text
    /\ pc = "start"
    /\ run = 1
    /\ first = <<>>
    /\ cat = PATTERNS
    /\ NoCalls
    /\ NoFileRun

RedactWithPatterns ==
    /\ pc = "start"
    /\ first' = redact_patterns(text, PATTERNS)
    /\ pc' = "reference"
    /\ UNCHANGED <<text, cur, run, cat>>
    /\ UNCHANGED <<call_vars, file_vars>>

RedactWithCatalog ==
    /\ pc = "reference"
    /\ \E c \in Catalogs :
          /\ cat' = c
          /\ cur' = redact_patterns(text, c)
    /\ pc' = "done"
    /\ UNCHANGED <<text, run, first>>
    /\ UNCHANGED <<call_vars, file_vars>>

NextPatterns == RedactWithPatterns \/ RedactWithCatalog

SpecPatterns == InitPatterns /\ [][NextPatterns]_vars

-----------------------------------------------------------------------------
(* redact_text_content, called once on body text: the texts of             *)
(* redact_patterns, a sentence with an e-mail address in it, and labelled  *)
(* values.                                                                 *)

ContactExample ==
    <<"c", "o", "n", "t", "a", "c", "t", " ", "m", "e", " ", "a", "t", " ", "a", "@", "b", ".", "c", "o", "m", " ", "f", "o", "r", " ", "i", "n", "f", "o">>

ContentTexts ==
    PatternTexts \cup {ContactExample}
        \cup {l \o <<":", " ">> \o v : l \in LabelWords, v \in PatternValues}

InitContent ==
    /\ text \in ContentTexts
    /\ cur = text
    /\ pc = "start"
    /\ run = 1
    /\ first = <<>>
    /\ cat = PATTERNS
    /\ NoCalls
    /\ NoFileRun

RedactTextContent ==
    /\ pc = "start"
    /\ cur' = redact_text_content(text)
    /\ pc' = "done"
    /\ UNCHANGED <<text, run, first, cat>>
    /\ UNCHANGED <<call_vars, file_vars>>

NextContent == RedactTextContent

SpecContent == InitContent /\ [][NextContent]_vars

-----------------------------------------------------------------------------
(* Calls of redact_text_content side by side, each on its own text, all    *)
(* reading the catalogs of the module.  A step of a call is one of its two *)
(* statements; the steps of different calls interleave in every order.     *)

MaxCalls == 2
CallIds == 1..MaxCalls

ConcurrentTexts ==
    { <<"S", "S", "N", ":", " ", "1", "2", "3", "-", "4", "5", "-", "6", "7", "8", "9">>,
      <<"E", "m", "a", "i", "l", ":", " ", "a", "@", "b", ".", "c", "o", "\n", "5", "5", "5", " ", "1", "2", "3", " ", "4", "5", "6", "7">>,
      <<"N", "a", "m", "e", ":", " ", "x">>,
      <<"a", "@", "b", ".", "c", "o", " ", "1", "2", "/", "2", "5", "/", "2", "0", "2", "0">> }

InitConcurrent ==
    /\ pii_labels = LabelPositions
    /\ patterns = PATTERNS
    /\ calls \in [CallIds -> {[text |-> t, r |-> t, pc |-> "start"] : t \in ConcurrentTexts}]
    /\ pc = "calls"
    /\ NoSingleCall
    /\ NoFileRun

(* A variant of the label pass that uses up the shared list while it       *)
(* iterates: while labels: label = labels.pop(0).                          *)
RedactLabelValuesOf_pops(c) ==
    /\ calls[c].pc = "start"
    /\ calls' = [calls EXCEPT ![c].r = redact_label_values(@, CatalogLabels(pii_labels)),
                              ![c].pc = "labelled"]
    /\ pii_labels' = {}
    /\ UNCHANGED <<patterns, text_vars, pc, file_vars>>

(* r = redact_label_values(text, PII_LABELS) *)
RedactLabelValuesOf(c) ==
    /\ calls[c].pc = "start"
    /\ calls' = [calls EXCEPT ![c].r = redact_label_values(@, CatalogLabels(pii_labels)),
                              ![c].pc = "labelled"]
    /\ UNCHANGED <<pii_labels, patterns, text_vars, pc, file_vars>>

(* r = redact_patterns(r, PATTERNS); return r *)
RedactPatternsOf(c) ==
    /\ calls[c].pc = "labelled"
    /\ calls' = [calls EXCEPT ![c].r = redact_patterns(@, patterns),
                              ![c].pc = "done"]
    /\ UNCHANGED <<pii_labels, patterns, text_vars, pc, file_vars>>

NextConcurrent ==
    \E c \in CallIds : RedactLabelValuesOf(c) \/ RedactPatternsOf(c)

SpecConcurrent == InitConcurrent /\ [][NextConcurrent]_vars

-----------------------------------------------------------------------------
(* main(): process_file_pipeline or redact_existing_file on a file the     *)
(* user selects.  The file dialog, the extraction of the file's text, the  *)
(* Gemini SDK and the writers are the environment: what they return is     *)
(* drawn from the sets below.                                              *)

(* askopenfilename: "" when the dialog is cancelled, else a path.          *)
SelectedPaths == {"", "gone.txt", "doc.txt"}
Exists(path) == path = "doc.txt"

ExtractedTexts ==
    { <<>>,
      <<" ", "\n">>,
      <<"S", "S", "N", ":", " ", "1", "2", "3", "-", "4", "5", "-", "6", "7", "8", "9">>,
      <<"a", "@", "b", ".", "c", "o", "\n", "x">>,
      <<"N", "a", "m", "e", ":", " ", "x">> }

(* The texts a response of the SDK carries. *)
Replies ==
    { <<>>,
      <<" ">>,
      <<"a", "@", "b", ".", "c", "o", " ">>,
      <<"N", "a", "m", "e", ":", " ", "1", "2", "3", "-", "4", "5", "-", "6", "7", "8", "9">> }

(* str(response) of a response object. *)
ResponseStr == <<"<", "r", "e", "s", "p", "o", "n", "s", "e", ">">>

(* What model.generate_content([prompt]) does.  "text": it returns an      *)
(* object whose attribute text is the reply; "dict": a dictionary, or a    *)
(* list that starts with one, with the reply under its key; "other": an    *)
(* object without the attribute text; "generate": it raises and            *)
(* model.generate(prompt=prompt) returns the reply (nothing for the empty  *)
(* reply); "raises": both raise, or genai.GenerativeModel does.            *)
Responses ==
    {[kind |-> k, text |-> c] : k \in {"text", "dict", "generate"}, c \in Replies}
        \cup {[kind |-> "other", text |-> ResponseStr],
              [kind |-> "raises", text |-> <<>>]}

(* The local cleaned before "if not cleaned": response.text when it is     *)
(* not empty, the value under the key of a dictionary, str(response) for   *)
(* every other response, an object with an empty text included.            *)
ParsedReply(resp) ==
    IF resp.kind = "text" /\ resp.text = <<>> THEN ResponseStr ELSE resp.text

fix_text_structure_with_gemini(t, sdk, resp) ==
    IF ~sdk THEN t
    ELSE IF resp.kind = "raises" THEN t
    ELSE LET c == ParsedReply(resp)
         IN  IF c = <<>> THEN t ELSE strip(c)

InitMain ==
    /\ pc = "main"
    /\ genai \in BOOLEAN
    /\ filepath = ""
    /\ raw_text = <<>>
    /\ content = <<>>
    /\ response = <<>>
    /\ cleaned = <<>>
    /\ redacted_text = <<>>
    /\ exported = <<>>
    /\ NoSingleCall
    /\ NoCalls

(* choice = messagebox.askyesno(...) *)
Main ==
    /\ pc = "main"
    /\ \E choice \in BOOLEAN : pc' = IF choice THEN "pipeline" ELSE "existing"
    /\ UNCHANGED <<text_vars, call_vars, file_vars>>

(* process_file_pipeline: the file dialog and the two early returns *)
SelectFile ==
    /\ pc = "pipeline"
    /\ \E f \in SelectedPaths :
          /\ filepath' = f
          /\ pc' = IF f = "" \/ ~Exists(f) THEN "returned" ELSE "extract"
    /\ UNCHANGED <<genai, raw_text, content, response, cleaned, redacted_text, exported>>
    /\ UNCHANGED <<text_vars, call_vars>>

(* Step 1: raw_text = extract_text_from_file(filepath) *)
ExtractText ==
    /\ pc = "extract"
    /\ \E t \in ExtractedTexts :
          /\ raw_text' = t
          /\ pc' = IF t = <<>> \/ strip(t) = <<>> THEN "returned" ELSE "cleanup"
    /\ UNCHANGED <<genai, filepath, content, response, cleaned, redacted_text, exported>>
    /\ UNCHANGED <<text_vars, call_vars>>

(* Step 2: AI cleanup (optional) *)
Cleanup ==
    /\ pc = "cleanup"
    /\ IF genai
       THEN \E resp \in Responses :
               /\ response' = resp
               /\ cleaned' =
                      LET c == fix_text_structure_with_gemini(raw_text, genai, resp)
                      IN  IF c = <<>> \/ strip(c) = <<>> THEN raw_text ELSE c
       ELSE /\ response' = response
            /\ cleaned' = raw_text
    /\ pc' = "redact"
    /\ UNCHANGED <<genai, filepath, raw_text, content, redacted_text, exported>>
    /\ UNCHANGED <<text_vars, call_vars>>

(* Step 3: redacted = redact_text_content(cleaned) *)
RedactCleaned ==
    /\ pc = "redact"
    /\ redacted_text' = redact_text_content(cleaned)
    /\ pc' = "save_word"
    /\ UNCHANGED <<genai, filepath, raw_text, content, response, cleaned, exported>>
    /\ UNCHANGED <<text_vars, call_vars>>

(* A variant of step 4 that hands the cleaned text to the writer. *)
SaveToWord_cleaned ==
    /\ pc = "save_word"
    /\ \E ok \in BOOLEAN :
          exported' = Append(exported, [to |-> "docx", text |-> cleaned, saved |-> ok])
    /\ pc' = "save_pdf"
    /\ UNCHANGED <<genai, filepath, raw_text, content, response, cleaned, redacted_text>>
    /\ UNCHANGED <<text_vars, call_vars>>

(* Step 4: word_path = save_to_word(redacted, filepath); the writer saves  *)
(* the document or fails and returns None.                                 *)
SaveToWord ==
    /\ pc = "save_word"
    /\ \E ok \in BOOLEAN :
          exported' = Append(exported, [to |-> "docx", text |-> redacted_text, saved |-> ok])
    /\ pc' = "save_pdf"
    /\ UNCHANGED <<genai, filepath, raw_text, content, response, cleaned, redacted_text>>
    /\ UNCHANGED <<text_vars, call_vars>>

(* pdf_path = save_to_pdf(redacted, filepath) *)
SaveToPdf ==
    /\ pc = "save_pdf"
    /\ \E ok \in BOOLEAN :
          exported' = Append(exported, [to |-> "pdf", text |-> redacted_text, saved |-> ok])
    /\ pc' = "returned"
    /\ UNCHANGED <<genai, filepath, raw_text, content, response, cleaned, redacted_text>>
    /\ UNCHANGED <<text_vars, call_vars>>

(* redact_existing_file: the file dialog and the early return *)
SelectExistingFile ==
    /\ pc = "existing"
    /\ \E f \in SelectedPaths :
          /\ filepath' = f
          /\ pc' = IF f = "" THEN "returned" ELSE "read"
    /\ UNCHANGED <<genai, raw_text, content, response, cleaned, redacted_text, exported>>
    /\ UNCHANGED <<text_vars, call_vars>>

(* The content of the file by its type; a read that raises ends in the     *)
(* except clause, an empty content in the early return.                    *)
ReadContent ==
    /\ pc = "read"
    /\ \E t \in ExtractedTexts, raises \in BOOLEAN :
          IF ~Exists(filepath) \/ raises
          THEN /\ content' = content
               /\ pc' = "returned"
          ELSE /\ content' = t
               /\ pc' = IF t = <<>> THEN "returned" ELSE "redact_existing"
    /\ UNCHANGED <<genai, filepath, raw_text, response, cleaned, redacted_text, exported>>
    /\ UNCHANGED <<text_vars, call_vars>>

(* redacted = redact_text_content(content) *)
RedactContent ==
    /\ pc = "redact_existing"
    /\ redacted_text' = redact_text_content(content)
    /\ pc' = "write"
    /\ UNCHANGED <<genai, filepath, raw_text, content, response, cleaned, exported>>
    /\ UNCHANGED <<text_vars, call_vars>>

(* f.write(redacted) to <filename>_redacted.txt; open or write can raise.  *)
WriteRedacted ==
    /\ pc = "write"
    /\ \E ok \in BOOLEAN :
          exported' = Append(exported, [to |-> "txt", text |-> redacted_text, saved |-> ok])
    /\ pc' = "returned"
    /\ UNCHANGED <<genai, filepath, raw_text, content, response, cleaned, redacted_text>>
    /\ UNCHANGED <<text_vars, call_vars>>

NextMain ==
    \/ Main
    \/ SelectFile \/ ExtractText \/ Cleanup \/ RedactCleaned \/ SaveToWord \/ SaveToPdf
    \/ SelectExistingFile \/ ReadContent \/ RedactContent \/ WriteRedacted

SpecMain == InitMain /\ [][NextMain]_vars

-----------------------------------------------------------------------------
(* Properties                                                              *)

Range(c) == {c[i] : i \in 1..Len(c)}

(* The physical lines of a text: the parts between its line breaks.        *)
RECURSIVE LinesFrom(_, _, _)
LinesFrom(s, pos, start) ==
    IF pos > Len(s) THEN <<SubSeq(s, start, Len(s))>>
    ELSE IF s[pos] \in LineBreaks
         THEN <<SubSeq(s, start, pos - 1)>> \o LinesFrom(s, pos + 1, pos + 1)
         ELSE LinesFrom(s, pos + 1, start)
Lines(s) == LinesFrom(s, 1, 1)

(* The matches re.sub replaces in s from pos on, each <<start, end, mark>>. *)
RECURSIVE Scan(_, _, _)
Scan(items, s, pos) ==
    LET f == Search(items, s, pos)
    IN  IF f = <<>> THEN <<>> ELSE <<f>> \o Scan(items, s, f[2])

AllGlyphs(s) == \A i \in 1..Len(s) : s[i] = Glyph

(* C1: the full redaction is idempotent: redacting the output of           *)
(* redact_text_content again returns that output unchanged.                *)
Idempotence == (pc = "done" /\ run = 2) => cur = first

(* C2: label-value redaction never leaves the line of the label that       *)
(* triggered it: after redact_label_values the text has the same lines,    *)
(* and a line on which no label of the catalog occurs is unchanged.        *)
LabelOnLine(line) == \E i \in 1..Len(PII_LABELS) : Occurs(PII_LABELS[i], line)
LineBoundaryContainment ==
    (pc = "labelled" /\ run = 1) =>
        LET a == Lines(text)
            b == Lines(cur)
        IN  /\ Len(a) = Len(b)
            /\ \A k \in 1..Len(a) : ~LabelOnLine(a[k]) => b[k] = a[k]

(* C3: every match of a rule of PATTERNS in the text handed to             *)
(* redact_patterns (the matches a scan of the text for the rule finds)     *)
(* consists of blackout glyphs only in the output.                         *)
EntireSpanBlackened ==
    pc = "reference" =>
        \A i \in 1..Len(PATTERNS) :
            LET ms == Scan(Compiled(PATTERNS[i]), text, 1)
            IN  \A j \in 1..Len(ms) : AllGlyphs(SubSeq(first, ms[j][1], ms[j][2] - 1))

(* C4: the label is never blackened: where a catalog label is followed on  *)
(* its line by a separator and a value, the characters of the label are    *)
(* the same in the output of redact_label_values.                          *)
LabelTextKept ==
    (pc = "labelled" /\ run = 1) =>
        LET a == Lines(text)
            b == Lines(cur)
        IN  \A k \in 1..Len(a) : \A i \in 1..Len(PII_LABELS) : \A p \in 1..Len(a[k]) :
                LET label == PII_LABELS[i]
                    last == p + Len(label) - 1
                IN  (/\ LitAt(a[k], p, label)
                     /\ Match(LabelForms(label)[1], a[k], p, p) /= <<>>)
                    => /\ k <= Len(b)
                       /\ last <= Len(b[k])
                       /\ SubSeq(b[k], p, last) = SubSeq(a[k], p, last)

(* C5: the label precedence example.  As the spec prints it the output of  *)
(* "SSN: 123-45-6789" is "SSN: " and thirteen glyphs; as amended it is     *)
(* "SSN: " and eleven glyphs, one for each character of the value.         *)
SSNInput == <<"S", "S", "N", ":", " ", "1", "2", "3", "-", "4", "5", "-", "6", "7", "8", "9">>
SSNOutput(glyphs) == <<"S", "S", "N", ":", " ">> \o [i \in 1..glyphs |-> Glyph]
SSNExampleAsPrinted ==
    (text = SSNInput /\ pc = "done" /\ run = 1) => cur = SSNOutput(13)
SSNExample ==
    (text = SSNInput /\ pc = "done" /\ run = 1) => cur = SSNOutput(11)
SSNExampleReached == text = SSNInput /\ pc = "done" /\ run = 1

(* C6: blackout_text returns one glyph for each code point, nothing for    *)
(* the empty text, and in a label pass over a text every value span V is   *)
(* replaced by exactly len(strip(V)) glyphs: the label part before it is   *)
(* copied, the text after it follows at once.                              *)
RECURSIVE ValuesReplaced(_, _, _, _, _)
ValuesReplaced(s, out, ms, j, shift) ==
    IF j > Len(ms) THEN Len(out) = Len(s) - shift
    ELSE LET v == SubSeq(s, ms[j][3], ms[j][2] - 1)
             n == Len(strip(v))
             at == ms[j][3] - shift
         IN  /\ at + n - 1 <= Len(out)
             /\ SubSeq(out, ms[j][1] - shift, at - 1) = SubSeq(s, ms[j][1], ms[j][3] - 1)
             /\ AllGlyphs(SubSeq(out, at, at + n - 1))
             /\ ValuesReplaced(s, out, ms, j + 1, shift + Len(v) - n)
PassKeepsLength(s, items) ==
    ValuesReplaced(s, Sub(items, s, TRUE), Scan(items, s, 1), 1, 0)
BlackoutLength ==
    /\ Len(blackout_text(cur)) = Len(cur)
    /\ AllGlyphs(blackout_text(cur))
    /\ blackout_text(<<>>) = <<>>
    /\ pc = "start" =>
          \A i \in 1..Len(PII_LABELS) :
              Occurs(PII_LABELS[i], cur) =>
                  /\ PassKeepsLength(cur, LabelForms(PII_LABELS[i])[1])
                  /\ PassKeepsLength(cur, LabelForms(PII_LABELS[i])[2])
ValueStripped ==
    /\ pc = "labelled"
    /\ run = 1
    /\ Len(cur) < Len(text)
    /\ \E i \in 1..Len(PII_LABELS) :
          /\ Occurs(PII_LABELS[i], text)
          /\ LET ms == Scan(LabelForms(PII_LABELS[i])[1], text, 1)
             IN  /\ ms /= <<>>
                 /\ LET v == SubSeq(text, ms[1][3], ms[1][2] - 1)
                    IN  strip(v) /= <<>> /\ Len(strip(v)) < Len(v)

(* C7: the redaction keeps the line structure: the output of               *)
(* redact_text_content has as many lines as the input, and a blank line of *)
(* the input is a blank line of the output.                                *)
LineStructurePreserved ==
    (pc = "done" /\ run = 1) =>
        LET a == Lines(text)
            b == Lines(cur)
        IN  /\ Len(a) = Len(b)
            /\ \A k \in 1..Len(a) : a[k] = <<>> => b[k] = <<>>

(* C8: a text in which no label of the catalog occurs in either form and   *)
(* no rule of PATTERNS matches is returned unchanged; the empty text       *)
(* yields the empty text.                                                  *)
NoOccurrence(s) ==
    /\ \A i \in 1..Len(PII_LABELS) :
          Occurs(PII_LABELS[i], s) =>
              /\ Search(LabelForms(PII_LABELS[i])[1], s, 1) = <<>>
              /\ Search(LabelForms(PII_LABELS[i])[2], s, 1) = <<>>
    /\ \A i \in 1..Len(PATTERNS) : Search(Compiled(PATTERNS[i]), s, 1) = <<>>
NoMatchPassthrough ==
    (pc = "done" /\ run = 1 /\ NoOccurrence(text)) => cur = text
NoMatchReached ==
    /\ pc = "done"
    /\ run = 1
    /\ NoOccurrence(text)
    /\ text /= <<>>
    /\ IsWord(text[1])
    /\ ":" \in Range(text)
    /\ Len(Lines(text)) > 1

(* C9: a rule whose expression does not compile is skipped: the output of  *)
(* redact_patterns for a catalog with one such rule is its output for the  *)
(* catalog without the rule.                                               *)
MalformedIsolation ==
    (pc = "done" /\ Malformed \in Range(cat)) => cur = first
MalformedSkipped ==
    /\ pc = "done"
    /\ cat = InsertAt(PATTERNS, 2, Malformed)
    /\ redact_patterns(text, SubSeq(PATTERNS, 1, 2)) /= text
    /\ cur /= redact_patterns(text, SubSeq(PATTERNS, 1, 2))

(* C10: the order of the rules.  As stated, redact_patterns yields the     *)
(* same output for every permutation of PATTERNS; as amended, it does for  *)
(* every text on which at most one rule of PATTERNS has a match: an output *)
(* that differs from the output in catalog order is the output for a text  *)
(* on which two rules or more have a match.                                *)
OrderIndependence ==
    (pc = "done" /\ Malformed \notin Range(cat)) => cur = first
MatchingRules(s) ==
    {i \in 1..Len(PATTERNS) : Search(Compiled(PATTERNS[i]), s, 1) /= <<>>}
OrderIndependenceOneRule ==
    (pc = "done" /\ Malformed \notin Range(cat) /\ cur /= first)
        => Cardinality(MatchingRules(text)) > 1
OneRuleReordered ==
    /\ pc = "done"
    /\ Malformed \notin Range(cat)
    /\ cat /= PATTERNS
    /\ Cardinality(MatchingRules(text)) = 1
    /\ cur /= text

(* C11: bare pattern catch.  On a text in which no label of the catalog    *)
(* occurs in either form, redact_text_content keeps the length, changes    *)
(* characters only into the glyph and only inside a span that a rule of    *)
(* PATTERNS matches at some position of the text, and leaves every other   *)
(* character where it was; of "contact me at a@b.com for info" exactly the *)
(* seven characters of a@b.com become glyphs.                              *)
NoLabelOccurrence(s) ==
    \A i \in 1..Len(PII_LABELS) :
        Occurs(PII_LABELS[i], s) =>
            /\ Search(LabelForms(PII_LABELS[i])[1], s, 1) = <<>>
            /\ Search(LabelForms(PII_LABELS[i])[2], s, 1) = <<>>
PatternSpans(s) ==
    UNION {LET m == Match(Compiled(PATTERNS[x[1]]), s, x[2], x[2])
           IN  IF m = <<>> THEN {} ELSE x[2]..(m[1] - 1) :
               x \in (1..Len(PATTERNS)) \X (1..Len(s))}
ContactRedacted ==
    SubSeq(ContactExample, 1, 14) \o [i \in 1..7 |-> Glyph]
        \o SubSeq(ContactExample, 22, 30)
BarePatternCatch ==
    (pc = "done" /\ NoLabelOccurrence(text)) =>
        /\ Len(cur) = Len(text)
        /\ cur /= text =>
               LET spans == PatternSpans(text)
               IN  \A q \in 1..Len(text) :
                       cur[q] /= text[q] => (cur[q] = Glyph /\ q \in spans)
        /\ text = ContactExample => cur = ContactRedacted
BareEmailCaught ==
    /\ pc = "done"
    /\ text = ContactExample
    /\ NoLabelOccurrence(text)
    /\ cur[15] = Glyph
    /\ cur[14] = " "

(* C12: redaction is pure under concurrent calls.  In every interleaving   *)
(* of the calls the catalogs PII_LABELS and PATTERNS stay as the module    *)
(* defined them, and the result of every finished call is the result of    *)
(* redact_text_content on that call's text alone.                          *)
ConcurrentPurity ==
    /\ pii_labels = LabelPositions
    /\ patterns = PATTERNS
    /\ \A c \in DOMAIN calls :
          calls[c].pc = "done" => calls[c].r = redact_text_content(calls[c].text)
CallsInterleaved ==
    /\ pc = "calls"
    /\ calls[1].pc = "labelled"
    /\ calls[2].pc = "done"
    /\ calls[1].text /= calls[2].text
    /\ calls[1].r /= calls[1].text
    /\ calls[2].r /= calls[2].text

(* C13: best-effort redaction in process_file_pipeline.  When the          *)
(* extracted text is not blank the run reaches the redaction and hands     *)
(* both writers a text; the text handed to redact_text_content is the raw  *)
(* extracted text when the cleanup is unavailable, raises or returns an    *)
(* empty or blank text, and the cleaned text, without the white space      *)
(* around it, otherwise.                                                   *)
CleanupFailed ==
    \/ ~genai
    \/ response.kind = "raises"
    \/ strip(response.text) = <<>>
BestEffortRedaction ==
    /\ pc = "redact" =>
          cleaned = IF CleanupFailed THEN raw_text ELSE strip(response.text)
    /\ (pc = "returned" /\ strip(raw_text) /= <<>>) => Len(exported) = 2

(* C14: no unredacted text is exported.  Every text handed to              *)
(* save_to_word or save_to_pdf or written to the _redacted.txt file is     *)
(* redact_text_content of the text the run redacts.  As stated, nothing is *)
(* written when no text is extracted, blank text counted as none; as       *)
(* amended, nothing is written when process_file_pipeline extracts an      *)
(* empty or blank text or redact_existing_file reads an empty one.         *)
ExportsAreRedacted ==
    \A i \in 1..Len(exported) :
        exported[i].text =
            redact_text_content(IF exported[i].to = "txt" THEN content ELSE cleaned)
SomethingWritten == \E i \in 1..Len(exported) : exported[i].saved
NoUnredactedExport ==
    /\ ExportsAreRedacted
    /\ SomethingWritten => (strip(raw_text) /= <<>> \/ strip(content) /= <<>>)
NoUnredactedExportOfText ==
    /\ ExportsAreRedacted
    /\ SomethingWritten => (strip(raw_text) /= <<>> \/ content /= <<>>)
    /\ (strip(raw_text) = <<>> /\ content = <<>>) => exported = <<>>
RedactedExported ==
    /\ pc = "returned"
    /\ Len(exported) = 2
    /\ exported[1].saved
    /\ exported[2].saved
    /\ cleaned /= raw_text
    /\ exported[1].text /= cleaned
    /\ exported[2].text = exported[1].text
====
